---- MODULE Spec2Model ----
(***************************************************************************)
(* aligot: dependency resolution, build ordering, fingerprinting, store    *)
(* addressing and the build-driver loop of func main, with the helpers     *)
(* filterByArch and topoSort.                                              *)
(*                                                                         *)
(* The run is a sequential program.  pc is the position of main:           *)
(*   "resolve" the worklist loop that fills b.specs                        *)
(*   "commit"  the pass that records the commit reference                  *)
(*   "mainpkg" the choice of the main package                              *)
(*   "hashes"  the pass that computes spec.Hash                            *)
(*   "paths"   the pass that fills spec.tar                                *)
(*   "build"   the head of the build-driver loop                           *)
(*   "visit"   inside one iteration of the build-driver loop               *)
(*   "exit"    main returned                                               *)
(*   "fatal"   msg.Fatalf ended the process                                *)
(*   "panic"   a run-time panic ended the process                          *)
(***************************************************************************)
EXTENDS Naturals, Sequences, FiniteSets, TLC

VARIABLES
    files,      \* the recipe directory cfg.cfgdir: file name -> content
    cfg,        \* the Config value
    flagRemote, \* *flagRemote, the -remote-store flag
    store,      \* packages whose storePath holds an artifact (never read)
    changing,   \* packages whose inputs change on every iteration (never read)
    pc,         \* position of main
    failure,    \* why the process ended, "" while it has not
    pkgs,       \* the pending-name worklist
    specs,      \* b.specs, the registry
    order,      \* b.order
    idx,        \* loop index of the pass in progress
    mainPkg,    \* mainPkg
    niter,      \* niter, attempts per package
    build,      \* the queue of the build-driver loop
    cur,        \* the package the driver is visiting, "" when none
    done        \* packages whose visit completed

vars == <<files, cfg, flagRemote, store, changing, pc, failure, pkgs, specs,
          order, idx, mainPkg, niter, build, cur, done>>

(***************************************************************************)
(* Bounds of the model.                                                    *)
(***************************************************************************)
MaxReqs == 2          \* longest requires list of a recipe
MaxBuildReqs == 1     \* longest build_requires list of a recipe
MaxDisabled == 1      \* largest disable set
MaxJobs == 2          \* largest -j value
MaxTokens == 1        \* longest requires list of ab.sh
MaxAttempts == 20     \* the attempt ceiling of the build driver

(***************************************************************************)
(* Strings.  Package names are drawn from a small alphabet; the string     *)
(* functions of the code are tabulated on it.                              *)
(***************************************************************************)
Range(s) == {s[i] : i \in 1..Len(s)}

IndexOf(s, x) == IF x \in Range(s) THEN CHOOSE i \in 1..Len(s) : s[i] = x ELSE 0

\* cfg.defaults and "defaults-"+cfg.defaults
Defaults == "release"
DefaultsPkg(d) == "defaults-" \o d

\* the names in byte order, as sort.Strings compares them
NameOrder == <<"A", "a", "ab", "b", "c", DefaultsPkg(Defaults)>>

Names == Range(NameOrder)

\* strings.ToLower
ToLower(s) == IF s = "A" THEN "a" ELSE s

\* strings.Index(v, ":") > -1 : no name of the alphabet holds a colon
ColonTokens == {"b:osx", "b:x86"}
HasColon(v) == v \in ColonTokens

\* strings.Replace(v, "/", "_", -1)
ReplaceSlash(v) == IF v = "v/1" THEN "v_1" ELSE v

\* regexp.MustCompile(pat).MatchString(arch)
MatchString(pat, arch) ==
    \/ pat = ".*"
    \/ pat = "x86" /\ arch = "x86"

(***************************************************************************)
(* Sequences of length at most n over S without repetition.                *)
(***************************************************************************)
NoDup(l) == \A i, j \in 1..Len(l) : i # j => l[i] # l[j]

ListsUpTo(S, n) == {l \in UNION {[1..k -> S] : k \in 0..n} : NoDup(l)}

(***************************************************************************)
(* The recipe directory.  A file is its content split at the delimiter     *)
(* "---": hdr is the metadata block as yaml.Unmarshal reads it, segs the   *)
(* segments that follow (none when the file holds no delimiter).           *)
(***************************************************************************)
NoFile == [missing |-> TRUE]

\* a metadata block yaml.Unmarshal rejects
BadYaml == [unparsable |-> TRUE]

FileNames == {"a", "b", "c", DefaultsPkg(Defaults)}

\* the requirement tokens a recipe of the tree may list
ReqTokens(f) ==
    CASE f = "a" -> {"A", "b", "c"}
      [] f = "b" -> {"a", "A"}
      [] f = "c" -> {}
      [] OTHER   -> {"a"}

BuildReqTokens(f) == IF f = "a" THEN {"c"} ELSE {}

Header(f) ==
    [Package : {f}, Version : {"v1"}, Tag : {""}, Source : {""},
     Revision : {""}, CommitHash : {""},
     Requires : ListsUpTo(ReqTokens(f), MaxReqs),
     BuildRequires : ListsUpTo(BuildReqTokens(f), MaxBuildReqs)]

FileChoices(f) ==
    [missing : {FALSE}, hdr : Header(f), segs : {<<"mk">>}]
        \cup (IF f = "c" THEN {NoFile} ELSE {})

\* ioutil.ReadFile
ReadFile(fname) == IF fname \in DOMAIN files THEN files[fname] ELSE NoFile

DisableSets == {d \in SUBSET {"a", "b", "c", DefaultsPkg(Defaults)} :
                    Cardinality(d) <= MaxDisabled}

\* the registry with spec stored under key k
Put(m, k, spec) == [n \in DOMAIN m \cup {k} |-> IF n = k THEN spec ELSE m[n]]

\* a Spec as yaml.Unmarshal leaves it: the fields of the header, zero elsewhere
Unmarshal(hdr) ==
    [Package |-> hdr.Package, Version |-> hdr.Version,
     Requires |-> hdr.Requires, BuildRequires |-> hdr.BuildRequires,
     RuntimeRequires |-> <<>>, Source |-> hdr.Source,
     CommitHash |-> hdr.CommitHash,
     Tag |-> hdr.Tag, Recipe |-> "", Hash |-> "",
     Revision |-> hdr.Revision,
     tar |-> [storePath |-> <<>>, linksPath |-> <<>>, hashDir |-> <<>>,
              linkDir |-> <<>>]]

(***************************************************************************)
(* filterByArch.  The result is [panic, o]: a token holding a colon is     *)
(* split with SplitN(v, ":", 1), which yields the one element v, so s[1]   *)
(* is out of range.                                                        *)
(***************************************************************************)
RECURSIVE filterByArch(_, _)
filterByArch(arch, reqs) ==
    IF reqs = <<>> THEN [panic |-> FALSE, o |-> <<>>]
    ELSE LET v == Head(reqs)
             rest == filterByArch(arch, Tail(reqs))
         IN  IF HasColon(v) THEN [panic |-> TRUE, o |-> <<>>]
             ELSE IF rest.panic THEN rest
             ELSE IF MatchString(".*", arch)
                  THEN [panic |-> FALSE, o |-> <<v>> \o rest.o]
                  ELSE rest

\* the names of s that are not in the disable set, in order
RECURSIVE DropDisabled(_, _)
DropDisabled(disable, s) ==
    IF s = <<>> THEN <<>>
    ELSE IF Head(s) \in disable THEN DropDisabled(disable, Tail(s))
    ELSE <<Head(s)>> \o DropDisabled(disable, Tail(s))

\* the closure fn of main
fn(c, args) ==
    LET archs == filterByArch(c.arch, args)
    IN  [panic |-> archs.panic, o |-> DropDisabled(c.disable, archs.o)]

\* WithDefaults without the test on the package name
WithDefaultsAlways(c, package, breqs) ==
    Append(breqs, DefaultsPkg(c.defaults))

\* the defaults package appended to BuildRequires
WithDefaults(c, package, breqs) ==
    IF package # DefaultsPkg(c.defaults)
    THEN Append(breqs, DefaultsPkg(c.defaults))
    ELSE breqs

\* Resolved with the runtime requirements copied after the merge
ResolvedMergedFirst(c, hdr, recipe) ==
    LET spec == Unmarshal(hdr)
        reqs == fn(c, spec.Requires).o
        breqs == WithDefaults(c, spec.Package, fn(c, spec.BuildRequires).o)
    IN  [spec EXCEPT !.BuildRequires = breqs,
                     !.RuntimeRequires = reqs \o breqs,
                     !.Requires = reqs \o breqs,
                     !.Tag = IF spec.Tag = "" THEN spec.Version ELSE spec.Tag,
                     !.Version = ReplaceSlash(spec.Version),
                     !.Recipe = recipe]

\* the Spec main stores for a parsed header and recipe body
Resolved(c, hdr, recipe) ==
    LET spec == Unmarshal(hdr)
        reqs == fn(c, spec.Requires).o
        breqs == WithDefaults(c, spec.Package, fn(c, spec.BuildRequires).o)
    IN  [spec EXCEPT !.BuildRequires = breqs,
                     !.RuntimeRequires = reqs,
                     !.Requires = reqs \o breqs,
                     !.Tag = IF spec.Tag = "" THEN spec.Version ELSE spec.Tag,
                     !.Version = ReplaceSlash(spec.Version),
                     !.Recipe = recipe]

\* recipe := tokens[1], the text between the first delimiter and the next
RecipeOf(segs) == segs[1]

Stop(kind, why) ==
    /\ pc' = kind
    /\ failure' = why

(***************************************************************************)
(* One iteration of the worklist loop.                                     *)
(***************************************************************************)
ResolveStep ==
    /\ pc = "resolve"
    /\ pkgs # <<>>
    /\ LET pkg == Head(pkgs)
           raw == ReadFile(ToLower(pkg))
       IN  IF pkg \in DOMAIN specs
           THEN /\ pkgs' = Tail(pkgs)
                /\ UNCHANGED <<pc, failure, specs>>
           ELSE IF raw.missing
           THEN /\ Stop("fatal", "could not read file")
                /\ pkgs' = Tail(pkgs)
                /\ UNCHANGED specs
           ELSE IF Len(raw.segs) = 0
           THEN /\ Stop("panic", "tokens[1]: index out of range")
                /\ pkgs' = Tail(pkgs)
                /\ UNCHANGED specs
           ELSE IF raw.hdr = BadYaml
           THEN /\ Stop("fatal", "could not unmarshal YAML document")
                /\ pkgs' = Tail(pkgs)
                /\ UNCHANGED specs
           ELSE IF raw.hdr.Package \in cfg.disable
           THEN /\ pkgs' = Tail(pkgs)
                /\ UNCHANGED <<pc, failure, specs>>
           ELSE IF fn(cfg, raw.hdr.Requires).panic
                   \/ fn(cfg, raw.hdr.BuildRequires).panic
           THEN /\ Stop("panic", "s[1]: index out of range")
                /\ pkgs' = Tail(pkgs)
                /\ UNCHANGED specs
           ELSE LET spec == Resolved(cfg, raw.hdr, RecipeOf(raw.segs))
                IN  /\ specs' = Put(specs, spec.Package, spec)
                    /\ pkgs' = Tail(pkgs) \o spec.Requires
                    /\ UNCHANGED <<pc, failure>>
    /\ UNCHANGED <<files, cfg, flagRemote, store, changing, order, idx,
                   mainPkg, niter, build, cur, done>>

(***************************************************************************)
(* topoSort.  keys holds the keys of the map in the order the range loop   *)
(* met them; sort.Strings puts them in byte order before the visit.        *)
(***************************************************************************)
Rank(n) == IndexOf(NameOrder, n)

\* insertion of x into the sorted sequence s
RECURSIVE Insert(_, _)
Insert(s, x) ==
    IF s = <<>> THEN <<x>>
    ELSE IF Rank(x) < Rank(Head(s)) THEN <<x>> \o s
    ELSE <<Head(s)>> \o Insert(Tail(s), x)

\* the keys left in the order the range loop met them
Unsorted(keys) == keys

\* sort.Strings
RECURSIVE SortStrings(_)
SortStrings(keys) ==
    IF keys = <<>> THEN <<>>
    ELSE Insert(SortStrings(Tail(keys)), Head(keys))

\* visitAll with the seen test around the descent only: a name met again is
\* appended again
RECURSIVE visitAllAppendSeen(_, _, _)
visitAllAppendSeen(m, items, st) ==
    IF items = <<>> \/ st.panic THEN st
    ELSE LET item == Head(items)
         IN  IF item \in st.seen
             THEN visitAllAppendSeen(m, Tail(items),
                      [st EXCEPT !.order = Append(@, item)])
             ELSE LET st1 == [st EXCEPT !.seen = @ \cup {item}]
                  IN  IF item \notin DOMAIN m
                      THEN [st1 EXCEPT !.panic = TRUE]
                      ELSE LET st2 == visitAllAppendSeen(m, m[item].Requires, st1)
                           IN  IF st2.panic THEN st2
                               ELSE visitAllAppendSeen(m, Tail(items),
                                        [st2 EXCEPT !.order = Append(@, item)])

\* visitAll: st is [seen, order, panic]; m[item] of a name that is no key
\* is a nil *Spec, and reading its Requires panics
RECURSIVE visitAll(_, _, _)
visitAll(m, items, st) ==
    IF items = <<>> \/ st.panic THEN st
    ELSE LET item == Head(items)
         IN  IF item \in st.seen THEN visitAll(m, Tail(items), st)
             ELSE LET st1 == [st EXCEPT !.seen = @ \cup {item}]
                  IN  IF item \notin DOMAIN m
                      THEN [st1 EXCEPT !.panic = TRUE]
                      ELSE LET st2 == visitAll(m, m[item].Requires, st1)
                           IN  IF st2.panic THEN st2
                               ELSE visitAll(m, Tail(items),
                                        [st2 EXCEPT !.order = Append(@, item)])

topoSort(m, keys) ==
    visitAll(m, SortStrings(keys), [seen |-> {}, order |-> <<>>, panic |-> FALSE])

\* the orders in which a range loop can meet the keys of m
KeyOrders(m) == {k \in [1..Cardinality(DOMAIN m) -> DOMAIN m] : NoDup(k)}

(***************************************************************************)
(* The worklist is empty: b.order = topoSort(b.specs).                     *)
(***************************************************************************)
TopoSortStep ==
    /\ pc = "resolve"
    /\ pkgs = <<>>
    /\ \E keys \in KeyOrders(specs) :
         LET r == topoSort(specs, keys)
         IN  IF r.panic
             THEN /\ Stop("panic", "nil pointer dereference")
                  /\ UNCHANGED <<order, idx>>
             ELSE /\ order' = r.order
                  /\ idx' = 1
                  /\ pc' = "commit"
                  /\ UNCHANGED failure
    /\ UNCHANGED <<files, cfg, flagRemote, store, changing, pkgs, specs,
                   mainPkg, niter, build, cur, done>>

(***************************************************************************)
(* resolve the tag to the actual commit ref: one package of b.order.       *)
(***************************************************************************)
CommitRef(spec) == IF spec.Source # "" THEN spec.Tag ELSE "0"

CommitStep ==
    /\ pc = "commit"
    /\ idx <= Len(order)
    /\ specs' = [specs EXCEPT ![order[idx]].CommitHash = CommitRef(specs[order[idx]])]
    /\ idx' = idx + 1
    /\ UNCHANGED <<files, cfg, flagRemote, store, changing, pc, failure, pkgs,
                   order, mainPkg, niter, build, cur, done>>

(***************************************************************************)
(* The main package: the last of the order, or a special package.          *)
(***************************************************************************)
mainPkgs == {"aliroot", "aliphysics", "o2"}

\* hasMainPkgs: the special packages of the order, last first
RECURSIVE hasMainPkgs(_)
hasMainPkgs(o) ==
    IF o = <<>> THEN <<>>
    ELSE LET v == o[Len(o)]
             front == SubSeq(o, 1, Len(o) - 1)
         IN  IF ToLower(v) \in mainPkgs
             THEN <<v>> \o hasMainPkgs(front)
             ELSE hasMainPkgs(front)

MainPkgOf(o) ==
    IF Len(hasMainPkgs(o)) > 0
    THEN hasMainPkgs(o)[Len(hasMainPkgs(o))]
    ELSE o[Len(o)]

MainPkgStep ==
    /\ pc = "commit"
    /\ idx > Len(order)
    /\ IF Len(order) = 0
       THEN /\ Stop("panic", "b.order[len(b.order)-1]: index out of range")
            /\ UNCHANGED <<mainPkg, idx>>
       ELSE /\ mainPkg' = MainPkgOf(order)
            /\ idx' = 1
            /\ pc' = "hashes"
            /\ UNCHANGED failure
    /\ UNCHANGED <<files, cfg, flagRemote, store, changing, pkgs, specs,
                   order, niter, build, cur, done>>

(***************************************************************************)
(* calculate the hashes: one package of b.order.  The digest is taken as   *)
(* injective: a hash is the byte string written to it.                     *)
(***************************************************************************)
fct(s) == IF s = "" THEN "none" ELSE s

HashInput(spec) ==
    fct(spec.Recipe) \o fct(spec.Version) \o fct(spec.Package)
        \o fct(spec.CommitHash)

Sha1Hex(bytes) == "sha1:" \o bytes

HashStep ==
    /\ pc = "hashes"
    /\ idx <= Len(order)
    /\ specs' = [specs EXCEPT ![order[idx]].Hash = Sha1Hex(HashInput(specs[order[idx]]))]
    /\ idx' = idx + 1
    /\ UNCHANGED <<files, cfg, flagRemote, store, changing, pc, failure, pkgs,
                   order, mainPkg, niter, build, cur, done>>

HashesDone ==
    /\ pc = "hashes"
    /\ idx > Len(order)
    /\ pc' = "paths"
    /\ idx' = 1
    /\ UNCHANGED <<files, cfg, flagRemote, store, changing, failure, pkgs,
                   specs, order, mainPkg, niter, build, cur, done>>

(***************************************************************************)
(* where to find the tarballs and links: one package of b.order.           *)
(* A path is the sequence of its elements, as filepath.Join joins them.    *)
(***************************************************************************)
WorkDir == "sw"

\* the first n characters of the hexadecimal text h
Take(h, n) == "[:" \o ToString(n) \o "]" \o h

\* spec.Hash[:3]
PrefixThree(hash) == Take(hash, 3)

\* spec.Hash[:2]
Prefix(hash) == Take(hash, 2)

\* filepath.Join: empty elements are left out
Join(elems) == SelectSeq(elems, LAMBDA e : e # "")

Tar(c, spec) ==
    [storePath |-> Join(<<"TARS", c.arch, "store", Prefix(spec.Hash), spec.Hash>>),
     linksPath |-> <<>>,
     hashDir |-> Join(<<WorkDir, "TARS", c.arch, "store", Prefix(spec.Hash),
                        c.arch>>),
     linkDir |-> Join(<<WorkDir, "TARS", c.arch, spec.Package>>)]

PathStep ==
    /\ pc = "paths"
    /\ idx <= Len(order)
    /\ specs' = [specs EXCEPT ![order[idx]].tar = Tar(cfg, specs[order[idx]])]
    /\ idx' = idx + 1
    /\ UNCHANGED <<files, cfg, flagRemote, store, changing, pc, failure, pkgs,
                   order, mainPkg, niter, build, cur, done>>

PathsDone ==
    /\ pc = "paths"
    /\ idx > Len(order)
    /\ pc' = "build"
    /\ build' = order
    /\ idx' = 0
    /\ UNCHANGED <<files, cfg, flagRemote, store, changing, failure, pkgs,
                   specs, order, mainPkg, niter, cur, done>>

(***************************************************************************)
(* The build-driver loop.  StartVisit(p) is the head of one iteration for  *)
(* the package p: the loop takes build[0] and nothing else.                *)
(***************************************************************************)
\* StartVisit without the reset of the revision
StartVisitKeep(p) ==
    /\ pc = "build"
    /\ build # <<>>
    /\ p = Head(build)
    /\ build' = Tail(build)
    /\ niter' = [niter EXCEPT ![p] = @ + 1]
    /\ IF niter[p] + 1 > MaxAttempts
       THEN /\ Stop("fatal", "too many attempts")
            /\ UNCHANGED <<specs, cur>>
       ELSE /\ UNCHANGED specs
            /\ cur' = p
            /\ pc' = "visit"
            /\ UNCHANGED failure
    /\ UNCHANGED <<files, cfg, flagRemote, store, changing, pkgs, order, idx,
                   mainPkg, done>>

StartVisit(p) ==
    /\ pc = "build"
    /\ build # <<>>
    /\ p = Head(build)
    /\ build' = Tail(build)
    /\ niter' = [niter EXCEPT ![p] = @ + 1]
    /\ IF niter[p] + 1 > MaxAttempts
       THEN /\ Stop("fatal", "too many attempts")
            /\ UNCHANGED <<specs, cur>>
       ELSE /\ specs' = [specs EXCEPT ![p].Revision = ""]
            /\ cur' = p
            /\ pc' = "visit"
            /\ UNCHANGED failure
    /\ UNCHANGED <<files, cfg, flagRemote, store, changing, pkgs, order, idx,
                   mainPkg, done>>

\* FinishVisit putting the package back on the queue
FinishVisitRequeue ==
    /\ pc = "visit"
    /\ IF flagRemote # ""
       THEN /\ Stop("panic", "not implemented")
            /\ UNCHANGED <<cur, done, build>>
       ELSE /\ done' = done \cup {cur}
            /\ build' = Append(build, cur)
            /\ cur' = ""
            /\ pc' = "build"
            /\ UNCHANGED failure
    /\ UNCHANGED <<files, cfg, flagRemote, store, changing, pkgs, specs,
                   order, idx, mainPkg, niter>>

\* the rest of the iteration: the remote store is not implemented
FinishVisit ==
    /\ pc = "visit"
    /\ IF flagRemote # ""
       THEN /\ Stop("panic", "not implemented")
            /\ UNCHANGED <<cur, done>>
       ELSE /\ done' = done \cup {cur}
            /\ cur' = ""
            /\ pc' = "build"
            /\ UNCHANGED failure
    /\ UNCHANGED <<files, cfg, flagRemote, store, changing, pkgs, specs,
                   order, idx, mainPkg, niter, build>>

\* the queue is empty: main returns
Exit ==
    /\ pc = "build"
    /\ build = <<>>
    /\ pc' = "exit"
    /\ UNCHANGED <<files, cfg, flagRemote, store, changing, failure, pkgs,
                   specs, order, idx, mainPkg, niter, build, cur, done>>

Init ==
    /\ \E fa \in FileChoices("a"), fb \in FileChoices("b"),
          fc \in FileChoices("c"), fd \in FileChoices(DefaultsPkg(Defaults)) :
            files = [f \in FileNames |->
                        CASE f = "a" -> fa [] f = "b" -> fb
                          [] f = "c" -> fc [] OTHER -> fd]
    /\ cfg \in [pkgs : {<<"a">>, <<"A">>}, disable : DisableSets,
                defaults : {Defaults}, arch : {"x86"}, njobs : 1..MaxJobs]
    /\ flagRemote \in {"", "store"}
    /\ store \in {{}, Names}
    /\ changing \in {{}, {"c"}}
    /\ pc = "resolve"
    /\ failure = ""
    /\ pkgs = <<cfg.pkgs[1]>>
    /\ specs = [n \in {} |-> n]
    /\ order = <<>>
    /\ idx = 0
    /\ mainPkg = ""
    /\ niter = [n \in Names |-> 0]
    /\ build = <<>>
    /\ cur = ""
    /\ done = {}

Next ==
    \/ ResolveStep
    \/ TopoSortStep
    \/ CommitStep
    \/ MainPkgStep
    \/ HashStep
    \/ HashesDone
    \/ PathStep
    \/ PathsDone
    \/ \E p \in Names : StartVisit(p)
    \/ FinishVisit
    \/ Exit

Spec == Init /\ [][Next]_vars

\* the runs of Init with an empty store, one job, no c.sh and at most b
\* disabled
InitLoop ==
    /\ Init
    /\ store = {}
    /\ changing = {}
    /\ cfg.njobs = 1
    /\ files["c"] = NoFile
    /\ cfg.disable \subseteq {"b"}

\* the program is one sequential process: it takes its next step whenever it
\* has one
FairSpec == InitLoop /\ [][Next]_vars /\ WF_vars(Next)

(***************************************************************************)
(* A second family of inputs, run by the same program: the target "ab"     *)
(* may require "b", and the texts of the recipes vary (version, revision,  *)
(* architecture patterns, a missing delimiter, a metadata block that is    *)
(* not YAML, an empty architecture).                                       *)
(***************************************************************************)
FieldFileNames == {"ab", "b", DefaultsPkg(Defaults)}

FieldTokens(f) == IF f = "ab" THEN {"b"} \cup ColonTokens ELSE {}

FieldHeader(f) ==
    [Package : {f},
     Version : IF f = "b" THEN {"1", "1a"} ELSE {"1"},
     Tag : {""},
     Source : IF f = "ab" THEN {"", "git"} ELSE {""},
     Revision : IF f = "ab" THEN {"", "7"} ELSE {""},
     CommitHash : IF f = "b" THEN {"", "abc"} ELSE {""},
     Requires : ListsUpTo(FieldTokens(f), MaxTokens),
     BuildRequires : {<<>>}]

\* the segments after the first delimiter: b.sh may hold the delimiter
\* text a second time
FieldBodies(f) == IF f = "b" THEN {<<"x">>, <<"x", "y">>} ELSE {<<"x">>}

FieldFileChoices(f) ==
    IF f = DefaultsPkg(Defaults)
    THEN [missing : {FALSE}, hdr : FieldHeader(f), segs : {<<"x">>}]
    ELSE [missing : {FALSE}, hdr : FieldHeader(f) \cup {BadYaml},
          segs : {<<>>} \cup FieldBodies(f)]
            \cup (IF f = "b" THEN {NoFile} ELSE {})

InitFields ==
    /\ \E fa \in FieldFileChoices("ab"), fb \in FieldFileChoices("b"),
          fd \in FieldFileChoices(DefaultsPkg(Defaults)) :
            files = [f \in FieldFileNames |->
                        CASE f = "ab" -> fa [] f = "b" -> fb [] OTHER -> fd]
    /\ cfg \in [pkgs : {<<"ab">>}, disable : {{}}, defaults : {Defaults},
                arch : {"x86", ""}, njobs : {1}]
    /\ flagRemote = ""
    /\ store = {}
    /\ changing = {}
    /\ pc = "resolve"
    /\ failure = ""
    /\ pkgs = <<cfg.pkgs[1]>>
    /\ specs = [n \in {} |-> n]
    /\ order = <<>>
    /\ idx = 0
    /\ mainPkg = ""
    /\ niter = [n \in Names |-> 0]
    /\ build = <<>>
    /\ cur = ""
    /\ done = {}

SpecFields == InitFields /\ [][Next]_vars

(***************************************************************************)
(* Notions the properties share.                                           *)
(***************************************************************************)
Keys == DOMAIN specs

Reqs(m, n) == Range(m[n].Requires)

\* the worklist is empty: resolution is over and ordering begins
ResolutionOver == pc = "resolve" /\ pkgs = <<>>

\* topoSort returned and a later pass, or the driver, is running
OrderInUse == pc \in {"commit", "hashes", "paths", "build", "visit", "exit"}

\* every package has its hash
HashesAssigned == pc \in {"paths", "build", "visit", "exit"}

\* the names n reaches through one or more requires edges of m
RECURSIVE ReachFrom(_, _, _)
ReachFrom(m, frontier, found) ==
    LET step == UNION {Reqs(m, n) : n \in frontier \cap DOMAIN m} \ found
    IN  IF step = {} THEN found ELSE ReachFrom(m, step, found \cup step)

DepsOf(m, n) == ReachFrom(m, {n}, {})

Cyclic(m) == \E n \in DOMAIN m : n \in DepsOf(m, n)

\* C1: the order topoSort returns is dependency-first: every name in
\* P.requires stands strictly before P in b.order.
DependencyFirst ==
    OrderInUse =>
        \A P \in Keys : \A r \in Reqs(specs, P) :
            /\ IndexOf(order, r) > 0
            /\ IndexOf(order, r) < IndexOf(order, P)

CycleDetected ==
    Cyclic(specs) => ~OrderInUse

\* the fingerprints of the registry m
Fingerprints(m) == [n \in DOMAIN m |-> Sha1Hex(HashInput(m[n]))]

OtherBodies == {"mk2"}

\* C4: with the recipe body of D changed and nothing else, every package
\* that depends on D gets another fingerprint and every package that does
\* not keeps its fingerprint.
FingerprintsChain ==
    HashesAssigned =>
        \A D \in Keys : \A body \in OtherBodies \ {specs[D].Recipe} :
            LET changed == Fingerprints([specs EXCEPT ![D].Recipe = body])
            IN  \A P \in Keys \ {D} :
                    IF D \in DepsOf(specs, P)
                    THEN changed[P] # specs[P].Hash
                    ELSE changed[P] = specs[P].Hash

\* C5: after resolution a disabled package is in no requirement list of a
\* resolved Spec, is no key of the registry and is not in the build order.
DisablePropagation ==
    (ResolutionOver \/ OrderInUse) =>
        \A D \in cfg.disable :
            /\ D \notin Keys
            /\ D \notin Range(order)
            /\ \A P \in Keys :
                /\ D \notin Range(specs[P].Requires)
                /\ D \notin Range(specs[P].BuildRequires)
                /\ D \notin Range(specs[P].RuntimeRequires)

\* C6: when ordering begins, every name in the requires of a Spec of the
\* registry that is not disabled is a key of the registry.
ClosureComplete ==
    ResolutionOver =>
        \A P \in Keys : \A r \in Reqs(specs, P) :
            r \notin cfg.disable => r \in Keys

\* C7: a run that visits a package whose inputs change on every iteration
\* ends with the fatal error of the attempt ceiling, after MaxAttempts
\* attempts at that package: it does not return normally.
ConvergenceBound ==
    pc = "exit" => \A p \in changing : niter[p] = 0

\* C8: while the driver visits a package, every package in its requires has
\* completed its own visit.
DepsDoneBeforeStart ==
    pc = "visit" => Reqs(specs, cur) \subseteq done

\* C9: with a store configured that holds the artifact of P, the visit to P
\* completes with P done.
ReuseCompletes ==
    \A p \in Keys :
        (flagRemote # "" /\ p \in store /\ niter[p] > 0 /\ pc # "visit")
            => p \in done

\* the number of package builds in progress
InProgress == IF pc = "visit" THEN 1 ELSE 0

\* C10: at most cfg.njobs builds are in progress, and while a worker is free
\* every queued package whose requires are all done can start.
WorkerPool ==
    /\ InProgress <= cfg.njobs
    /\ \A p \in Range(build) :
        (pc = "build" /\ InProgress < cfg.njobs /\ Reqs(specs, p) \subseteq done)
            => ENABLED StartVisit(p)

(***************************************************************************)
(* What the code does guarantee where the properties above fail.           *)
(***************************************************************************)
\* on an acyclic registry the order topoSort returns is dependency-first
AcyclicDependencyFirst ==
    (OrderInUse /\ ~Cyclic(specs)) =>
        \A P \in Keys : \A r \in Reqs(specs, P) :
            /\ IndexOf(order, r) > 0
            /\ IndexOf(order, r) < IndexOf(order, P)

\* on an acyclic registry every requires of the visited package is done
AcyclicDepsDone ==
    (pc = "visit" /\ ~Cyclic(specs)) => Reqs(specs, cur) \subseteq done

\* a disabled package other than the defaults package is in no list
DisabledFiltered ==
    \A D \in cfg.disable \ {DefaultsPkg(cfg.defaults)} :
        /\ D \notin Keys
        /\ D \notin Range(order)
        /\ \A P \in Keys :
            /\ D \notin Range(specs[P].Requires)
            /\ D \notin Range(specs[P].BuildRequires)
            /\ D \notin Range(specs[P].RuntimeRequires)

\* the attempt ceiling is never met: a package is visited at most once
VisitedOnce == \A p \in Names : niter[p] <= 1

(***************************************************************************)
(* Fingerprint encoding, architecture filter, addressing.                  *)
(***************************************************************************)
\* the four fields the fingerprint is taken over
FieldsOf(spec) == <<spec.Recipe, spec.Version, spec.Package, spec.CommitHash>>

\* C11: once the fingerprints are assigned, two Specs of the registry that
\* differ in at least one of recipe body, version, name and commit reference
\* have different fingerprints (the digest being injective on its input).
FingerprintUnambiguous ==
    HashesAssigned =>
        \A p, q \in Keys :
            FieldsOf(specs[p]) # FieldsOf(specs[q])
                => specs[p].Hash # specs[q].Hash

\* the name and the pattern of a requirement token name or name:pattern
TokenName(v) == IF v \in ColonTokens THEN "b" ELSE v

TokenPattern(v) ==
    CASE v = "b:osx" -> "osx"
      [] v = "b:x86" -> "x86"
      [] OTHER       -> ".*"

\* the names of the tokens of reqs whose pattern matches arch, in order
RECURSIVE ArchFiltered(_, _)
ArchFiltered(arch, reqs) ==
    IF reqs = <<>> THEN <<>>
    ELSE IF MatchString(TokenPattern(Head(reqs)), arch)
         THEN <<TokenName(Head(reqs))>> \o ArchFiltered(arch, Tail(reqs))
         ELSE ArchFiltered(arch, Tail(reqs))

\* the header of the recipe that declares package p
HeaderOf(p) ==
    LET f == CHOOSE g \in DOMAIN files :
                 /\ ~files[g].missing
                 /\ files[g].hdr # BadYaml
                 /\ files[g].hdr.Package = p
    IN  files[f].hdr

\* C12: filterByArch returns for every token list it is given the names of
\* the plain tokens and of the tokens whose pattern matches the architecture,
\* in input order: it never stops the run, and the runtime requirements of
\* every resolved Spec are the names so filtered (less the disabled ones).
ArchFilterContract ==
    /\ failure # "s[1]: index out of range"
    /\ \A p \in Keys :
           specs[p].RuntimeRequires =
               DropDisabled(cfg.disable,
                            ArchFiltered(cfg.arch, HeaderOf(p).Requires))

\* the addressing pass is over
PathsAssigned == pc \in {"build", "visit", "exit"}

StructuralFailures ==
    {"could not read file", "tokens[1]: index out of range",
     "could not unmarshal YAML document"}

\* the recipe file f can be read, has the delimiter and parses
WellFormed(f) ==
    /\ ~files[f].missing
    /\ Len(files[f].segs) > 0
    /\ files[f].hdr # BadYaml

\* C14: a recipe of the closure that cannot be loaded, lacks the delimiter
\* or has unparsable metadata stops the run with a reported error before the
\* build driver has visited any package, and the driver only ever visits
\* when every Spec of the registry comes from a well-formed recipe.
StructuralErrorsReported ==
    /\ failure \in StructuralFailures
           => pc = "fatal" /\ \A p \in Names : niter[p] = 0
    /\ (\E p \in Names : niter[p] > 0)
           => \A p \in Keys :
                  \E f \in DOMAIN files :
                      WellFormed(f) /\ files[f].hdr.Package = p

(***************************************************************************)
(* The hash pass and the shape of a resolved Spec.                         *)
(***************************************************************************)
\* the packages the hash pass has already given a fingerprint
Hashed == IF pc = "hashes" THEN Range(SubSeq(order, 1, idx - 1)) ELSE {}

\* C15: at the moment the hash pass computes the fingerprint of a package,
\* every package in its requires already has its fingerprint.
FingerprintsDependencyFirst ==
    pc = "hashes" /\ idx <= Len(order)
        => Reqs(specs, order[idx]) \subseteq Hashed

\* the same on a registry without a cycle
AcyclicFingerprintsDependencyFirst ==
    pc = "hashes" /\ idx <= Len(order) /\ ~Cyclic(specs)
        => Reqs(specs, order[idx]) \subseteq Hashed

\* C16: for every resolved Spec, runtime_requires is the filtered requires
\* of the recipe as they were before the build-only requirements were merged
\* in, requires is runtime_requires followed by build_requires, and a
\* build-only requirement is in runtime_requires only if the recipe also
\* listed it in requires.
RuntimeRequiresSplit ==
    \A p \in Keys :
        LET hdr == HeaderOf(p)
            spec == specs[p]
        IN  /\ spec.RuntimeRequires =
                   DropDisabled(cfg.disable, ArchFiltered(cfg.arch, hdr.Requires))
            /\ spec.Requires = spec.RuntimeRequires \o spec.BuildRequires
            /\ \A x \in Range(spec.BuildRequires) :
                   x \in Range(spec.RuntimeRequires)
                       => x \in {TokenName(t) : t \in Range(hdr.Requires)}

RuntimeRequiresSplitWitness ==
    /\ ResolutionOver
    /\ \E p \in Keys :
           /\ specs[p].RuntimeRequires # <<>>
           /\ \E x \in Range(HeaderOf(p).BuildRequires) :
                  /\ x \in Range(specs[p].Requires)
                  /\ x \notin Range(specs[p].RuntimeRequires)

\* C17: every resolved Spec other than the defaults package of the active
\* profile has that package in build_requires and in requires; the Spec of
\* the defaults package has nothing appended to the build requirements of
\* its recipe, and requires itself only if its recipe says so.
DefaultsAppended ==
    \A p \in Keys :
        LET d == DefaultsPkg(cfg.defaults)
            hdr == HeaderOf(p)
        IN  IF p # d
            THEN /\ d \in Range(specs[p].BuildRequires)
                 /\ d \in Range(specs[p].Requires)
            ELSE /\ specs[p].BuildRequires =
                        DropDisabled(cfg.disable,
                                     ArchFiltered(cfg.arch, hdr.BuildRequires))
                 /\ d \in Range(specs[p].Requires)
                        => d \in {TokenName(t) : t \in Range(hdr.Requires)}

DefaultsAppendedWitness ==
    /\ ResolutionOver
    /\ DefaultsPkg(cfg.defaults) \in Keys
    /\ \E p \in Keys : p # DefaultsPkg(cfg.defaults)

\* the worklist loop is about to read the recipe file of the name it pops
Loading ==
    /\ pc = "resolve"
    /\ pkgs # <<>>
    /\ Head(pkgs) \notin DOMAIN specs

\* C18: during one resolution the recipe of a package is loaded, and its
\* Spec created, at most once: the loop never reads a recipe whose package
\* already has its Spec in the registry.
LoadedOnce ==
    Loading =>
        LET f == ToLower(Head(pkgs))
        IN  f \in DOMAIN files /\ WellFormed(f)
                => files[f].hdr.Package \notin Keys

\* every name the run can pop is the package its recipe declares, and no
\* package is disabled
DeclaredNames ==
    /\ cfg.disable = {}
    /\ ToLower(cfg.pkgs[1]) = cfg.pkgs[1]
    /\ \A f \in DOMAIN files :
           WellFormed(f) =>
               \A t \in Range(files[f].hdr.Requires)
                        \cup Range(files[f].hdr.BuildRequires) :
                   ToLower(t) = t

\* the same when every name is the declared one
DeclaredNamesLoadedOnce == DeclaredNames => LoadedOnce

(***************************************************************************)
(* The visits of the build driver.                                         *)
(***************************************************************************)
\* C19: while the build driver is on a package (from the head of the
\* iteration on), the revision of that package is empty, whatever it held
\* before the visit.
RevisionReset == pc = "visit" => specs[cur].Revision = ""

RevisionResetWitness ==
    /\ pc = "visit"
    /\ HeaderOf(cur).Revision # ""

\* C20: within one build two different packages never get the same
\* storePath (the digest being injective on its input).
StorePathsDistinct ==
    PathsAssigned =>
        \A p, q \in Range(order) :
            p # q => specs[p].tar.storePath # specs[q].tar.storePath

(***************************************************************************)
(* The commit references, the order and the main package.                  *)
(***************************************************************************)
\* the commit-resolution pass is over
CommitsAssigned == pc \in {"hashes", "paths", "build", "visit", "exit"}

\* the commit reference the pass owes a package: the one its recipe gives,
\* else the sentinel when it declares no source, else its tag
CommitGiven(hdr, spec) ==
    IF hdr.CommitHash # "" THEN hdr.CommitHash
    ELSE IF spec.Source = "" THEN "0"
    ELSE spec.Tag

\* C21: after the commit-resolution pass the commit reference of every
\* package is the value it was given: the one of its recipe when the recipe
\* gives one, the sentinel "0" only when the package declares no source, the
\* tag otherwise.
CommitRecorded ==
    CommitsAssigned =>
        \A p \in Range(order) :
            /\ specs[p].CommitHash = CommitGiven(HeaderOf(p), specs[p])
            /\ specs[p].CommitHash = "0" => specs[p].Source = ""

\* the same for the recipes that give no commit reference
CommitRecordedNoneGiven ==
    CommitsAssigned =>
        \A p \in Range(order) :
            HeaderOf(p).CommitHash = ""
                => /\ specs[p].CommitHash = CommitGiven(HeaderOf(p), specs[p])
                   /\ specs[p].CommitHash = "0" => specs[p].Source = ""

\* C22: resolution terminates: in every run the worklist loop is left (by
\* an error) or the worklist becomes empty.
ResolutionTerminates == <>(pc # "resolve" \/ pkgs = <<>>)

TargetPackage ==
    LET f == ToLower(cfg.pkgs[1])
    IN  IF f \in DOMAIN files /\ WellFormed(f)
        THEN files[f].hdr.Package
        ELSE cfg.pkgs[1]

\* the special packages of the order
SpecialsIn(o) == {o[i] : i \in {j \in 1..Len(o) : ToLower(o[j]) \in mainPkgs}}

\* C24: the build order is never empty when the passes after the sort read
\* it and its last element is the requested target; the main package chosen
\* is a special package when one is in the order, the last element
\* otherwise.
MainPackage ==
    /\ failure # "b.order[len(b.order)-1]: index out of range"
    /\ OrderInUse =>
           /\ order # <<>>
           /\ order[Len(order)] = TargetPackage
    /\ CommitsAssigned =>
           IF SpecialsIn(order) # {}
           THEN mainPkg \in SpecialsIn(order)
           ELSE mainPkg = order[Len(order)]

\* the same when the requested target is not disabled
EnabledTargetMainPackage ==
    TargetPackage \notin cfg.disable => MainPackage

\* how often p occurs in o
Occurrences(o, p) == Cardinality({i \in 1..Len(o) : o[i] = p})

\* the run is over
Ended == pc \in {"exit", "fatal", "panic"}

RECURSIVE BodyText(_)
BodyText(segs) ==
    IF Len(segs) = 1 THEN segs[1]
    ELSE segs[1] \o "---" \o BodyText(Tail(segs))

\* the segments of the recipe that declares package p
SegsOf(p) ==
    LET f == CHOOSE g \in DOMAIN files :
                 WellFormed(g) /\ files[g].hdr.Package = p
    IN  files[f].segs

\* C26: the recipe body stored in a Spec is the whole text after the first
\* delimiter, and a recipe with the same metadata whose text after the first
\* delimiter differs anywhere gets a different fingerprint.
WholeBody ==
    \A p \in Keys :
        /\ specs[p].Recipe = BodyText(SegsOf(p))
        /\ HashesAssigned =>
               \A other \in FieldBodies(p) :
                   BodyText(other) # BodyText(SegsOf(p))
                       => Sha1Hex(HashInput([specs[p] EXCEPT
                                                 !.Recipe = RecipeOf(other)]))
                              # specs[p].Hash

\* the same for recipes that hold the delimiter once
SingleDelimiterWholeBody ==
    \A p \in Keys :
        Len(SegsOf(p)) = 1 =>
            /\ specs[p].Recipe = BodyText(SegsOf(p))
            /\ HashesAssigned =>
                   \A other \in FieldBodies(p) :
                       Len(other) = 1 /\ BodyText(other) # BodyText(SegsOf(p))
                           => Sha1Hex(HashInput([specs[p] EXCEPT
                                                     !.Recipe = RecipeOf(other)]))
                                  # specs[p].Hash

=============================================================================
